---- MODULE Spec2Model ----
(***************************************************************************)
(* Model of scripts/play_fetch_runalyze.py: the two HTML parsers           *)
(* parse_prognosis_html and parse_marathon_requirements_html.              *)
(*                                                                         *)
(* An HTML text is the sequence of its lexemes: a lexeme is either a tag   *)
(* ("<" ... ">", no ">" inside) or a maximal run of text without "<".      *)
(* The raw text is the concatenation of the lexemes.  Every regular       *)
(* expression of the source whose pieces begin and end at tag boundaries   *)
(* is evaluated over the lexemes, with the tag patterns ("<p[^>]*>",       *)
(* class=... ) decided on the characters of the lexeme; the expressions    *)
(* that look inside text (the login tokens, simple_pattern, clean_html,    *)
(* the number parsers) are evaluated on characters.                        *)
(***************************************************************************)
EXTENDS Naturals, Sequences, FiniteSets

(***************************************************************************)
(* Bounds of the explored inputs.                                          *)
(***************************************************************************)
MaxChunks == 3

(***************************************************************************)
(* Characters and strings.                                                 *)
(***************************************************************************)
Char(s, i) == SubSeq(s, i, i)

Digits == {"0", "1", "2", "3", "4", "5", "6", "7", "8", "9"}

\* Python's \s on the characters used here.
Spaces == {" ", "\t", "\n"}

\* str.lower() on one character.
LowerChar(c) ==
  CASE c = "A" -> "a" [] c = "B" -> "b" [] c = "C" -> "c" [] c = "D" -> "d"
    [] c = "E" -> "e" [] c = "F" -> "f" [] c = "G" -> "g" [] c = "H" -> "h"
    [] c = "I" -> "i" [] c = "J" -> "j" [] c = "K" -> "k" [] c = "L" -> "l"
    [] c = "M" -> "m" [] c = "N" -> "n" [] c = "O" -> "o" [] c = "P" -> "p"
    [] c = "Q" -> "q" [] c = "R" -> "r" [] c = "S" -> "s" [] c = "T" -> "t"
    [] c = "U" -> "u" [] c = "V" -> "v" [] c = "W" -> "w" [] c = "X" -> "x"
    [] c = "Y" -> "y" [] c = "Z" -> "z" [] OTHER -> c

RECURSIVE lower(_)
\* str.lower(), character by character (by halves, to keep the evaluation shallow).
lower(s) ==
  IF Len(s) = 0 THEN ""
  ELSE IF Len(s) = 1 THEN LowerChar(s)
  ELSE lower(SubSeq(s, 1, Len(s) \div 2)) \o lower(SubSeq(s, Len(s) \div 2 + 1, Len(s)))

\* "needle in s"
Contains(s, needle) ==
  \E i \in 1..(Len(s) + 1 - Len(needle)) : SubSeq(s, i, i + Len(needle) - 1) = needle

\* Number of leading / trailing whitespace characters of s.
LeadSpaces(s) ==
  IF \A i \in 1..Len(s) : Char(s, i) \in Spaces THEN Len(s)
  ELSE (CHOOSE i \in 1..Len(s) :
          Char(s, i) \notin Spaces /\ \A j \in 1..(i - 1) : Char(s, j) \in Spaces) - 1

TrailSpaces(s) ==
  IF \A i \in 1..Len(s) : Char(s, i) \in Spaces THEN Len(s)
  ELSE Len(s) - (CHOOSE i \in 1..Len(s) :
          Char(s, i) \notin Spaces /\ \A j \in (i + 1)..Len(s) : Char(s, j) \in Spaces)

\* str.rstrip() and str.strip()
rstrip(s) == SubSeq(s, 1, Len(s) - TrailSpaces(s))

strip(s) ==
  IF LeadSpaces(s) = Len(s) THEN "" ELSE SubSeq(s, LeadSpaces(s) + 1, Len(s) - TrailSpaces(s))

RECURSIVE Keep(_, _)
\* re.sub(r'[^...]', '', s): the characters of s that are in the class keep.
Keep(s, keep) ==
  IF s = "" THEN ""
  ELSE (IF Head(s) \in keep THEN Head(s) ELSE "") \o Keep(Tail(s), keep)

RECURSIVE replace(_, _, _)
\* str.replace(old, new)
replace(s, old, new) ==
  IF Len(s) < Len(old) THEN s
  ELSE IF SubSeq(s, 1, Len(old)) = old
       THEN new \o replace(SubSeq(s, Len(old) + 1, Len(s)), old, new)
       ELSE Head(s) \o replace(Tail(s), old, new)

RECURSIVE Join(_)
\* The raw text of a sequence of lexemes.
Join(toks) ==
  IF Len(toks) = 0 THEN ""
  ELSE IF Len(toks) = 1 THEN toks[1]
  ELSE Join(SubSeq(toks, 1, Len(toks) \div 2))
         \o Join(SubSeq(toks, Len(toks) \div 2 + 1, Len(toks)))

\* The least element of a set of numbers, 0 when the set is empty: the first
\* position at which a lazy ".*?" can stop.
First(S) == IF S = {} THEN 0 ELSE CHOOSE i \in S : \A j \in S : i <= j

(***************************************************************************)
(* Numbers.  A float is kept exactly as num / 10^scale with no trailing    *)
(* zero in the fraction; None is the value with isNone.                    *)
(***************************************************************************)
None == [isNone |-> TRUE, num |-> 0, scale |-> 0]

DigitVal(c) ==
  CASE c = "0" -> 0 [] c = "1" -> 1 [] c = "2" -> 2 [] c = "3" -> 3 [] c = "4" -> 4
    [] c = "5" -> 5 [] c = "6" -> 6 [] c = "7" -> 7 [] c = "8" -> 8 [] c = "9" -> 9

RECURSIVE DigitsToNat(_)
DigitsToNat(s) ==
  IF s = "" THEN 0
  ELSE 10 * DigitsToNat(SubSeq(s, 1, Len(s) - 1)) + DigitVal(Char(s, Len(s)))

RECURSIVE DropTrailingZeros(_)
DropTrailingZeros(s) ==
  IF s # "" /\ Char(s, Len(s)) = "0" THEN DropTrailingZeros(SubSeq(s, 1, Len(s) - 1)) ELSE s

\* float(s) for s made of digits and periods; None stands for the ValueError
\* that every caller catches.
float(s) ==
  LET dots == {i \in 1..Len(s) : Char(s, i) = "."}
      dot  == First(dots)
      ip   == IF dot = 0 THEN s ELSE SubSeq(s, 1, dot - 1)
      fp   == IF dot = 0 THEN "" ELSE DropTrailingZeros(SubSeq(s, dot + 1, Len(s)))
  IN IF Cardinality(dots) > 1 \/ Len(s) - Cardinality(dots) = 0 THEN None
     ELSE [isNone |-> FALSE, num |-> DigitsToNat(ip \o fp), scale |-> Len(fp)]

\* int(s) for s made of digits and periods.
int(s) ==
  IF s = "" \/ Contains(s, ".") THEN None
  ELSE [isNone |-> FALSE, num |-> DigitsToNat(s), scale |-> 0]

RECURSIVE Pow10(_)
Pow10(k) == IF k = 0 THEN 1 ELSE 10 * Pow10(k - 1)

\* a < b for two numbers.
NumLess(a, b) == a.num * Pow10(b.scale) < b.num * Pow10(a.scale)

\* re.sub(r'[^\d,\.]', '', label).replace(',', '.')
dist_clean(label) == replace(Keep(label, Digits \cup {",", "."}), ",", ".")

(***************************************************************************)
(* Tag patterns, decided on the characters of one lexeme (all with re.I).  *)
(***************************************************************************)
Quotes == {"\"", "'"}

IsTag(t) == Len(t) >= 2 /\ Char(t, 1) = "<" /\ Char(t, Len(t)) = ">"

\* [^<]+ : a non-empty run of text.
IsText(t) == t # "" /\ ~Contains(t, "<")

\* <name[^>]*>
OpenTag(t, name) ==
  IsTag(t) /\ Len(t) >= Len(name) + 2 /\ lower(SubSeq(t, 1, Len(name) + 1)) = "<" \o name

\* A literal closing tag such as </p>.
Lit(t, lit) == lower(t) = lit

\* <name[^>]{min,}class=["']cls["'][^>]*>
HasClassExact(t, name, cls, min) ==
  /\ OpenTag(t, name)
  /\ \E q1 \in Quotes, q2 \in Quotes :
       Contains(SubSeq(lower(t), Len(name) + 2 + min, Len(t) - 1),
                "class=" \o q1 \o cls \o q2)

\* <name[^>]*class=["'][^"']*needle[^"']*["'][^>]*>
HasClassContaining(t, name, needle) ==
  /\ OpenTag(t, name)
  /\ LET lt == lower(t)
     IN \E i \in (Len(name) + 2)..Len(t), j \in (Len(name) + 2)..(Len(t) - 1) :
          /\ i + 6 < j
          /\ SubSeq(lt, i, i + 5) = "class="
          /\ Char(lt, i + 6) \in Quotes
          /\ Char(lt, j) \in Quotes
          /\ \A k \in (i + 7)..(j - 1) : Char(lt, k) \notin Quotes
          /\ Contains(SubSeq(lt, i + 7, j - 1), needle)

(***************************************************************************)
(* The element patterns of p_re and global_pattern, at position i of a     *)
(* lexeme sequence ts: an opening tag, one run of text, the closing tag.   *)
(***************************************************************************)
\* <strong[^>]*>\s*([^<]+?)\s*</strong>
StrongAt(ts, i) ==
  /\ i + 2 <= Len(ts)
  /\ OpenTag(ts[i], "strong")
  /\ IsText(ts[i + 1])
  /\ Lit(ts[i + 2], "</strong>")

\* <strong[^>]*>\s*([^<]+?mi)\s*</strong>
StrongMiAt(ts, i) ==
  /\ StrongAt(ts, i)
  /\ LET r == rstrip(ts[i + 1])
     IN Len(r) >= 3 /\ lower(SubSeq(r, Len(r) - 1, Len(r))) = "mi"

\* \s*\(?([^<\)]+?)\)?\s* against the whole text t of a <small>: the ways to
\* match are <<a, p, e>>, a spaces skipped, p = 1 when "(" is consumed, the
\* group ending at e; the regex engine prefers more spaces (greedy \s*), then
\* the parenthesis (greedy \(?), then the shortest group (lazy +?).
SmallWays(t) ==
  LET n == Len(t)
      RestOK(e) ==
        IF e < n /\ Char(t, e + 1) = ")"
        THEN \A k \in (e + 2)..n : Char(t, k) \in Spaces
        ELSE \A k \in (e + 1)..n : Char(t, k) \in Spaces
  IN {w \in (0..LeadSpaces(t)) \X {0, 1} \X (1..n) :
        /\ w[2] = 1 => Char(t, w[1] + 1) = "("
        /\ w[1] + w[2] + 1 <= w[3]
        /\ \A k \in (w[1] + w[2] + 1)..w[3] : Char(t, k) \notin {"<", ")"}
        /\ RestOK(w[3])}

SmallGroup(t) ==
  LET W == SmallWays(t)
      Pref(v, w) ==
        \/ v[1] > w[1]
        \/ v[1] = w[1] /\ v[2] > w[2]
        \/ v[1] = w[1] /\ v[2] = w[2] /\ v[3] <= w[3]
      w == CHOOSE v \in W : \A u \in W : Pref(v, u)
  IN SubSeq(t, w[1] + w[2] + 1, w[3])

\* <small[^>]*>\s*\(?([^<\)]+?)\)?\s*</small>
SmallAt(ts, i) ==
  /\ i + 2 <= Len(ts)
  /\ OpenTag(ts[i], "small")
  /\ IsText(ts[i + 1])
  /\ Lit(ts[i + 2], "</small>")
  /\ SmallWays(ts[i + 1]) # {}

\* distance_mi of a label: float(dist_clean) with the ValueError caught.
distance_mi(label) == float(dist_clean(label))

PrognosisEntry(dist_label, time_str, pace_str) ==
  [distance_label |-> dist_label,
   distance_mi    |-> distance_mi(dist_label),
   time           |-> time_str,
   pace           |-> pace_str]

(***************************************************************************)
(* The first position in lo..hi at which a piece of a pattern matches, 0   *)
(* when there is none: where the regex engine ends a lazy ".*?" (or starts *)
(* a search).  When the rest of the pattern then fails, a later position   *)
(* has no more text after it and fails as well, so the first one decides.  *)
(***************************************************************************)
\* Whether the piece matches at position i of the lexemes ts.
MatchAt(piece, ts, i) ==
  CASE piece = "<p"                -> OpenTag(ts[i], "p")
    [] piece = "<td"               -> OpenTag(ts[i], "td")
    [] piece = "span.right"        -> HasClassExact(ts[i], "span", "right", 0)
    [] piece = "panel"             -> HasClassExact(ts[i], "div", "panel-content", 1)
    [] piece = "table.zebra-style" -> HasClassContaining(ts[i], "table", "zebra-style")
    [] piece = "tr.r"              -> HasClassContaining(ts[i], "tr", "r")
    [] piece = "strong"            -> StrongAt(ts, i)
    [] piece = "strong mi"         -> StrongMiAt(ts, i)
    [] piece = "small"             -> SmallAt(ts, i)
    [] OTHER                       -> Lit(ts[i], piece)

RECURSIVE FirstMatch(_, _, _, _)
FirstMatch(piece, ts, lo, hi) ==
  IF lo > hi THEN 0
  ELSE IF lo = hi THEN (IF MatchAt(piece, ts, lo) THEN lo ELSE 0)
  ELSE LET mid  == (lo + hi) \div 2
           left == FirstMatch(piece, ts, lo, mid)
       IN IF left # 0 THEN left ELSE FirstMatch(piece, ts, mid + 1, hi)

\* The number of lexemes a matched piece takes up.
Width(piece) == IF piece \in {"strong", "strong mi", "small"} THEN 3 ELSE 1

RECURSIVE MatchChain(_, _, _)
RECURSIVE NextPiece(_, _, _)
\* The positions at which the pieces of a pattern match, each piece looked
\* for lazily (".*?") after the one before it, the first from position from
\* on; the sequence ends with 0 at the first piece that is not found.
MatchChain(pieces, ts, from) ==
  IF pieces = <<>> THEN <<>>
  ELSE NextPiece(pieces, ts, FirstMatch(Head(pieces), ts, from, Len(ts)))

NextPiece(pieces, ts, a) ==
  IF a = 0 THEN <<0>>
  ELSE <<a>> \o MatchChain(Tail(pieces), ts, a + Width(Head(pieces)))

\* Whether a chain of k pieces matched as a whole.
Matched(m, k) == Len(m) = k /\ m[k] # 0

(***************************************************************************)
(* Fragment locator of parse_prognosis_html.                               *)
(***************************************************************************)
\* re.search(r'<div[^>]+class=["\']panel-content["\'][^>]*>(.*?)</div>', html_text)
\* and block = group(1) if it matched, else html_text.
panel_block(toks) ==
  LET a == FirstMatch("panel", toks, 1, Len(toks))
      b == IF a = 0 THEN 0 ELSE FirstMatch("</div>", toks, a + 1, Len(toks))
  IN IF b = 0 THEN toks ELSE SubSeq(toks, a + 1, b - 1)

(***************************************************************************)
(* Tier 1: p_blocks and p_re.                                              *)
(***************************************************************************)
RECURSIVE p_blocks_from(_, _)
\* re.findall(r'<p[^>]*>(.*?)</p>', block)
p_blocks_from(ts, from) ==
  LET a == FirstMatch("<p", ts, from, Len(ts))
      b == IF a = 0 THEN 0 ELSE FirstMatch("</p>", ts, a + 1, Len(ts))
  IN IF a = 0 \/ b = 0 THEN <<>>
     ELSE <<SubSeq(ts, a + 1, b - 1)>> \o p_blocks_from(ts, b + 1)

p_blocks(block) == p_blocks_from(block, 1)

\* p_re.search(pb): the positions of the span, the time <strong>, the <small>,
\* the </span> and the distance <strong>; 0 where the search fails.
p_re == <<"span.right", "strong", "small", "</span>", "strong mi">>

p_re_groups(m) ==
  IF Matched(m, 5) THEN [ok |-> TRUE, time |-> m[2], pace |-> m[3], dist |-> m[5]]
  ELSE [ok |-> FALSE, time |-> 0, pace |-> 0, dist |-> 0]

p_re_search(pb) == p_re_groups(MatchChain(p_re, pb, 1))

\* The record appended for a paragraph pb matched by m, none when m failed.
Tier1Entry(pb, m) ==
  IF m.ok
  THEN <<PrognosisEntry(strip(pb[m.dist + 1]),
                        strip(pb[m.time + 1]),
                        strip(SmallGroup(pb[m.pace + 1])))>>
  ELSE <<>>

RECURSIVE Tier1Over(_)
\* for pb in p_blocks: m = p_re.search(pb); if m: entries.append({...})
Tier1Over(pbs) ==
  IF pbs = <<>> THEN <<>>
  ELSE Tier1Entry(Head(pbs), p_re_search(Head(pbs))) \o Tier1Over(Tail(pbs))

Tier1(block) == Tier1Over(p_blocks(block))

(***************************************************************************)
(* Tier 2: global_pattern.findall(html_text).                              *)
(***************************************************************************)
global_pattern == <<"<p", "strong", "small", "strong mi", "</p>">>

RECURSIVE global_pattern_findall(_, _)
RECURSIVE global_pattern_rest(_, _)
\* The matches of global_pattern from position from on, each given by the
\* positions of its <p>, time <strong>, <small>, distance <strong> and </p>.
global_pattern_findall(ts, from) ==
  global_pattern_rest(ts, MatchChain(global_pattern, ts, from))

\* The match m, if it is one, and the matches after it.
global_pattern_rest(ts, m) ==
  IF ~Matched(m, 5) THEN <<>>
  ELSE <<[open |-> m[1], time |-> m[2], pace |-> m[3], dist |-> m[4], close |-> m[5]]>>
       \o global_pattern_findall(ts, m[5] + 1)

Tier2Entry(ts, m) ==
  PrognosisEntry(strip(ts[m.dist + 1]),
                 strip(ts[m.time + 1]),
                 strip(SmallGroup(ts[m.pace + 1])))

Tier2(toks) ==
  LET ms == global_pattern_findall(toks, 1)
  IN [i \in 1..Len(ms) |-> Tier2Entry(toks, ms[i])]

(***************************************************************************)
(* Tier 3: simple_pattern.findall(html_text), on the characters of the     *)
(* raw text.  Each XxxEnd(s, i) is the position just after the piece       *)
(* matched at i, 0 when it does not match there.                           *)
(***************************************************************************)
RECURSIVE RunLen(_, _, _)
\* Length of the longest run of characters of class cls starting at i.
RunLen(s, i, cls) ==
  IF i <= Len(s) /\ Char(s, i) \in cls THEN 1 + RunLen(s, i + 1, cls) ELSE 0

\* [0-9\.,]+\s*mi
DistEnd(s, i) ==
  LET run == RunLen(s, i, Digits \cup {".", ","})
      k   == i + run + RunLen(s, i + run, Spaces)
  IN IF run >= 1 /\ k + 1 <= Len(s) /\ lower(SubSeq(s, k, k + 1)) = "mi" THEN k + 2 ELSE 0

\* [0-9]{nd}:[0-5][0-9] at i
ClockAt(s, i, nd) ==
  /\ i + nd + 2 <= Len(s)
  /\ \A k \in i..(i + nd - 1) : Char(s, k) \in Digits
  /\ Char(s, i + nd) = ":"
  /\ Char(s, i + nd + 1) \in {"0", "1", "2", "3", "4", "5"}
  /\ Char(s, i + nd + 2) \in Digits

\* (?::[0-5][0-9])? at e: the position after it
SecondsEnd(s, e) ==
  IF /\ e + 2 <= Len(s)
     /\ Char(s, e) = ":"
     /\ Char(s, e + 1) \in {"0", "1", "2", "3", "4", "5"}
     /\ Char(s, e + 2) \in Digits
  THEN e + 3 ELSE e

\* [0-9]{1,2}:[0-5][0-9](?::[0-5][0-9])?
TimeEnd(s, i) ==
  IF ClockAt(s, i, 2) THEN SecondsEnd(s, i + 5)
  ELSE IF ClockAt(s, i, 1) THEN SecondsEnd(s, i + 4)
  ELSE 0

\* \([0-9]{nd}:[0-5][0-9]\/mi\) at i
PaceAt(s, i, nd) ==
  /\ i + nd + 7 <= Len(s)
  /\ Char(s, i) = "("
  /\ ClockAt(s, i + 1, nd)
  /\ lower(SubSeq(s, i + nd + 4, i + nd + 7)) = "/mi)"

\* \([0-9]{1,2}:[0-5][0-9]\/mi\)
PaceEnd(s, i) ==
  IF PaceAt(s, i, 2) THEN i + 10 ELSE IF PaceAt(s, i, 1) THEN i + 9 ELSE 0

\* Whether the piece of simple_pattern matches at character i of s.
PieceAt(piece, s, i) ==
  CASE piece = "dist" -> DistEnd(s, i) # 0
    [] piece = "time" -> TimeEnd(s, i) # 0
    [] piece = "pace" -> PaceEnd(s, i) # 0

RECURSIVE FirstAt(_, _, _, _)
\* The first character position in lo..hi at which the piece matches, 0 when none.
FirstAt(piece, s, lo, hi) ==
  IF lo > hi THEN 0
  ELSE IF lo = hi THEN (IF PieceAt(piece, s, lo) THEN lo ELSE 0)
  ELSE LET mid  == (lo + hi) \div 2
           left == FirstAt(piece, s, lo, mid)
       IN IF left # 0 THEN left ELSE FirstAt(piece, s, mid + 1, hi)

RECURSIVE strip_parens(_)
\* str.strip('()')
strip_parens(s) ==
  IF s # "" /\ Head(s) \in {"(", ")"} THEN strip_parens(Tail(s))
  ELSE IF s # "" /\ Char(s, Len(s)) \in {"(", ")"} THEN strip_parens(SubSeq(s, 1, Len(s) - 1))
  ELSE s

RECURSIVE simple_pattern_findall(_, _)
simple_pattern_findall(s, from) ==
  LET n == Len(s)
      d == FirstAt("dist", s, from, n)
      t == IF d = 0 THEN 0 ELSE FirstAt("time", s, DistEnd(s, d), n)
      p == IF t = 0 THEN 0 ELSE FirstAt("pace", s, TimeEnd(s, t), n)
  IN IF p = 0 THEN <<>>
     ELSE <<PrognosisEntry(strip(SubSeq(s, d, DistEnd(s, d) - 1)),
                           strip(SubSeq(s, t, TimeEnd(s, t) - 1)),
                           strip_parens(strip(SubSeq(s, p, PaceEnd(s, p) - 1))))>>
          \o simple_pattern_findall(s, PaceEnd(s, p))

Tier3(toks) == simple_pattern_findall(Join(toks), 1)

(***************************************************************************)
(* Staleness detector (both parsers).                                      *)
(***************************************************************************)
login_indicators == {"login", "signin", "sign in", "two-factor", "2fa"}

\* A faulty variant of LoginDetected: the text is not lowered first.
LoginDetectedCaseSensitive(toks) ==
  \E tok \in login_indicators : Contains(Join(toks), tok)

\* lower = html_text.lower(); any(tok in lower for tok in login_indicators)
LoginDetected(toks) ==
  LET lowered == lower(Join(toks))
  IN \E tok \in login_indicators : Contains(lowered, tok)

(***************************************************************************)
(* Entry sequencer of parse_prognosis_html.                                *)
(***************************************************************************)
\* A faulty variant of KeyLess: the key is only (distance_mi or 0), so None sorts as 0.
KeyLessNoneAsZero(a, b) == NumLess(a.distance_mi, b.distance_mi)

\* key(a) < key(b) for key = (distance_mi is None, distance_mi or 0)
KeyLess(a, b) ==
  \/ ~a.distance_mi.isNone /\ b.distance_mi.isNone
  \/ /\ a.distance_mi.isNone = b.distance_mi.isNone
     /\ NumLess(a.distance_mi, b.distance_mi)

\* One step of a stable sort: e goes before the first element whose key is
\* greater, hence after every element with the same key.
InsertByKey(sorted, e) ==
  LET k == First({i \in 1..Len(sorted) : KeyLess(e, sorted[i])})
  IN IF k = 0 THEN Append(sorted, e)
     ELSE SubSeq(sorted, 1, k - 1) \o <<e>> \o SubSeq(sorted, k, Len(sorted))

RECURSIVE SortEntries(_)
\* entries.sort(key=...): list.sort is stable.
SortEntries(es) ==
  IF es = <<>> THEN <<>>
  ELSE InsertByKey(SortEntries(SubSeq(es, 1, Len(es) - 1)), es[Len(es)])

\* A faulty variant of Found: the comparison is off by one.
FoundOffByOne(es) == Len(es) > 1

\* len(entries) > 0
Found(es) == Len(es) > 0

\* The value both parsers return.
ParseResult(login, es) ==
  [meta |-> [login_detected |-> login, found |-> Found(es)], entries |-> es]

(***************************************************************************)
(* parse_marathon_requirements_html: locator, rows, cells, fields.         *)
(***************************************************************************)
\* An optional string: None, or the string v.
NoneStr == [isNone |-> TRUE, v |-> ""]

Some(s) == [isNone |-> FALSE, v |-> s]

\* re.search(r'<table[^>]*class=["\'][^"\']*zebra-style[^"\']*["\'][^>]*>(.*?)</table>', html_text)
\* and block = group(1) if it matched, else html_text.
table_block(toks) ==
  LET a == FirstMatch("table.zebra-style", toks, 1, Len(toks))
      b == IF a = 0 THEN 0 ELSE FirstMatch("</table>", toks, a + 1, Len(toks))
  IN IF b = 0 THEN toks ELSE SubSeq(toks, a + 1, b - 1)

RECURSIVE tr_pattern_findall(_, _)
\* tr_pattern.findall(block): the inside of every <tr ... class="..r.."> ... </tr>
tr_pattern_findall(ts, from) ==
  LET a == FirstMatch("tr.r", ts, from, Len(ts))
      b == IF a = 0 THEN 0 ELSE FirstMatch("</tr>", ts, a + 1, Len(ts))
  IN IF a = 0 \/ b = 0 THEN <<>>
     ELSE <<SubSeq(ts, a + 1, b - 1)>> \o tr_pattern_findall(ts, b + 1)

RECURSIVE td_pattern_findall(_, _)
\* td_pattern.findall(tr): the raw text inside every <td ...> ... </td>
td_pattern_findall(ts, from) ==
  LET a == FirstMatch("<td", ts, from, Len(ts))
      b == IF a = 0 THEN 0 ELSE FirstMatch("</td>", ts, a + 1, Len(ts))
  IN IF a = 0 \/ b = 0 THEN <<>>
     ELSE <<Join(SubSeq(ts, a + 1, b - 1))>> \o td_pattern_findall(ts, b + 1)

RECURSIVE strip_tags(_)
\* re.sub(r'<[^>]+>', '', s)
strip_tags(s) ==
  IF s = "" THEN ""
  ELSE IF Head(s) = "<"
       THEN LET j == First({k \in 2..Len(s) : Char(s, k) = ">"})
            IN IF j >= 3 THEN strip_tags(SubSeq(s, j + 1, Len(s)))
               ELSE "<" \o strip_tags(Tail(s))
       ELSE Head(s) \o strip_tags(Tail(s))

clean_html(s) == strip(replace(strip_tags(s), "&nbsp;", " "))

\* A faulty variant of RowTooShort: the threshold is one cell too low.
RowTooShortSix(tds) == Len(tds) < 6

\* if len(tds) < 7: continue
RowTooShort(tds) == Len(tds) < 7

\* A faulty variant of achieved_ok: the test is made on the cleaned cell text.
achieved_ok_cleaned(cell) == Contains(lower(clean_html(cell)), "fa-check")

\* The icon test on the raw cell (tds[5] of the source).
achieved_ok(cell) ==
  IF Contains(lower(cell), "fa-check") THEN TRUE
  ELSE IF \E x \in {"fa-xmark", "fa-times", "xmark", "minus"} : Contains(lower(cell), x)
       THEN FALSE
       ELSE FALSE

\* A faulty variant of Placeholder: the dash is not collapsed.
PlaceholderKeepsDash(cell) ==
  IF ~cell.isNone /\ cell.v # "" THEN cell ELSE NoneStr

\* x if x and x != '-' else None
Placeholder(cell) ==
  IF ~cell.isNone /\ cell.v # "" /\ cell.v # "-" THEN cell ELSE NoneStr

\* The entry appended for a row that is not skipped; tds[k + 1] here is
\* tds[k] of the source.
RowEntry(tds) ==
  LET distance_cell  == clean_html(tds[1])
      required_cell  == clean_html(tds[2])
      weekly_cell    == clean_html(tds[3])
      longrun_cell   == clean_html(tds[4])
      achieved_cell  == clean_html(tds[5])
      prognosis_cell == IF Len(tds) > 6 THEN Some(clean_html(tds[7])) ELSE NoneStr
      optimum_cell   == IF Len(tds) > 7 THEN Some(clean_html(tds[8])) ELSE NoneStr
  IN [distance_label |-> distance_cell,
      distance_mi    |-> IF dist_clean(distance_cell) # ""
                         THEN float(dist_clean(distance_cell)) ELSE None,
      required_pct   |-> int(Keep(required_cell, Digits \cup {"."})),
      weekly         |-> weekly_cell,
      long_run       |-> longrun_cell,
      achieved_pct   |-> int(Keep(achieved_cell, Digits \cup {"."})),
      achieved_ok    |-> achieved_ok(tds[6]),
      prognosis_time |-> Placeholder(prognosis_cell),
      optimum_time   |-> Placeholder(optimum_cell)]

(***************************************************************************)
(* Inputs.  A value passed as html_text: a str (its lexemes), None, an     *)
(* int or a list.                                                          *)
(***************************************************************************)
Str(toks) == [type |-> "str", toks |-> toks, n |-> 0]

NonStrInputs ==
  {[type |-> "NoneType", toks |-> <<>>, n |-> 0],
   [type |-> "int", toks |-> <<>>, n |-> 0],
   [type |-> "int", toks |-> <<>>, n |-> 7],
   [type |-> "list", toks |-> <<>>, n |-> 0],
   [type |-> "list", toks |-> <<"<p>", "Login", "</p>">>, n |-> 0]}

\* bool(x)
Truthy(x) ==
  CASE x.type = "str"      -> Join(x.toks) # ""
    [] x.type = "NoneType" -> FALSE
    [] x.type = "int"      -> x.n # 0
    [] x.type = "list"     -> Len(x.toks) > 0

\* A faulty variant of InvalidInput: only the type is tested.
InvalidInputTypeOnly(x) == x.type # "str"

\* not html_text or not isinstance(html_text, str)
InvalidInput(x) == ~Truthy(x) \/ x.type # "str"

T1Para(t, p, d) ==
  <<"<p>", "<span class=\"right\">", "<strong>", t, "</strong>", "<small>", p, "</small>",
    "</span>", "<strong>", d, "</strong>", "</p>">>

RelaxedPara(t, p, d) ==
  <<"<p>", "<strong>", t, "</strong>", " ", "<small>", p, "</small>",
    "<strong>", d, "</strong>", "</p>">>

TimePara(t, p) == <<"<p>", "<strong>", t, "</strong>", "<small>", p, "</small>", "</p>">>

DistPara(d) == <<"<p>", "<strong>", d, "</strong>", "</p>">>

PlainLine(text) == <<"<li>", text, "</li>">>

LoginLink == <<"<a href='/LOGIN'>", "Account", "</a>">>

Panel(ch) == <<"<div id='p' class='panel-content'>">> \o ch \o <<"</div>">>

PrognosisChunks ==
  {T1Para("13:13", "(7:05/mi)", "1,86 mi"),
   T1Para(" 22:45 ", "(7:19/mi)", "3,1 mi"),
   T1Para("13:40", "7:20/mi", "1.860 mi"),
   T1Para("1:45:00", "(8:00/mi)", "Half mi"),
   Panel(T1Para("59:59", "(9:39/mi)", "6,2 mi")),
   RelaxedPara("47:30", "(7:38/mi)", "6,2 mi"),
   TimePara("13:13", "(7:05/mi)"),
   DistPara("1,86 mi"),
   PlainLine("10 mi 1:20:00 (8:00/mi)"),
   LoginLink}

Td(content) == <<"<td>">> \o content \o <<"</td>">>

Icon(cls) == <<"<i class='" \o cls \o "'>", "</i>">>

\* A table row: distance, required, weekly, long run, achieved, icon, then
\* the cells of rest.
Row(cls, dist, achieved, icon, rest) ==
  <<"<tr class='" \o cls \o "'>">>
    \o Td(<<dist>>) \o Td(<<"70 %">>) \o Td(<<"31 mi">>) \o Td(<<"18 mi">>)
    \o Td(achieved) \o Td(icon) \o rest \o <<"</tr>">>

Table(rows) == <<"<table class='fluid zebra-style'>">> \o rows \o <<"</table>">>

RequirementsChunks ==
  {Row("r", "26,2 mi", <<"85 %">>, Icon("fa-solid fa-check"),
       Td(<<"3:10:00">>) \o Td(<<"2:59:00">>)),
   Row("r", "6,2 mi", <<"40 %">>, Icon("fa-solid fa-xmark"),
       Td(<<"-">>) \o Td(<<" - ">>)),
   Row("c r", "13,1 mi", Icon("fa-check") \o <<"60 %">>, <<>>,
       Td(<<"<b>", "-", "</b>">>)),
   Row("r", "3,1 mi", <<"100 %">>, Icon("fa-check"), <<>>),
   Row("r", "Marathon", <<"55.5 %">>, Icon("fa-check") \o Icon("fa-times"),
       Td(<<"&nbsp;">>) \o Td(<<"2:59:00">>)),
   Row("r", "10 mi", <<"90 %">>, Icon("icon-minus"),
       Td(<<"45:00">>) \o Td(<<>>)),
   Row("head", "Distance", <<"Achieved">>, <<>>,
       Td(<<"Prognosis">>) \o Td(<<"Optimum">>)),
   Table(<<"<tr class='r'>">> \o Td(<<"none">>) \o <<"</tr>">>
           \o Row("r", "1 mi", <<"100 %">>, Icon("fa-check"),
                  Td(<<"6:30">>) \o Td(<<"-">>))),
   LoginLink}

RECURSIVE Flatten(_)
Flatten(chunks) == IF chunks = <<>> THEN <<>> ELSE Head(chunks) \o Flatten(Tail(chunks))

\* The texts made of at most MaxChunks of the given chunks.
Texts(chunks) ==
  {Flatten(cs) : cs \in UNION {[1..n -> chunks] : n \in 0..MaxChunks}}

Functions == {"parse_prognosis_html", "parse_marathon_requirements_html"}

Inputs(f) ==
  NonStrInputs \cup
    {Str(t) : t \in Texts(IF f = "parse_prognosis_html"
                          THEN PrognosisChunks ELSE RequirementsChunks)}

(***************************************************************************)
(* The state of one call.                                                  *)
(*   pc             position in the called function                        *)
(*   fn, html       the function called and its argument html_text         *)
(*   login_detected, block, entries   the locals of that name              *)
(*   rows, row_idx  tr_pattern.findall(block), each row as its td cells,   *)
(*                  and the row the for loop is at                         *)
(*   result         the value returned                                     *)
(* History, written and never read by the actions:                         *)
(*   tiers_run      the tiers run so far, with the records each produced   *)
(*   t2_matches     the global_pattern matches behind the Tier 2 records   *)
(*   extracted      entries as they were before entries.sort               *)
(*   src_rows       for each entry, the index in rows of the row it is of  *)
(***************************************************************************)
VARIABLES pc, fn, html, login_detected, block, entries, rows, row_idx, result,
          tiers_run, t2_matches, extracted, src_rows

vars == <<pc, fn, html, login_detected, block, entries, rows, row_idx, result,
          tiers_run, t2_matches, extracted, src_rows>>

Init ==
  /\ pc = "idle"
  /\ fn = "none"
  /\ html = [type |-> "NoneType", toks |-> <<>>, n |-> 0]
  /\ login_detected = FALSE
  /\ block = <<>>
  /\ entries = <<>>
  /\ rows = <<>>
  /\ row_idx = 1
  /\ result = ParseResult(FALSE, <<>>)
  /\ tiers_run = <<>>
  /\ t2_matches = <<>>
  /\ extracted = <<>>
  /\ src_rows = <<>>

\* A caller calls f(x).
Call ==
  /\ pc = "idle"
  /\ \E f \in Functions : \E x \in Inputs(f) : fn' = f /\ html' = x
  /\ pc' = "begin"
  /\ UNCHANGED <<login_detected, block, entries, rows, row_idx, result,
                 tiers_run, t2_matches, extracted, src_rows>>

\* parse_prognosis_html up to entries = []: the guard and its early return,
\* the login test, the panel block.
PrognosisBegin ==
  /\ pc = "begin"
  /\ fn = "parse_prognosis_html"
  /\ IF InvalidInput(html)
     THEN /\ result' = ParseResult(FALSE, <<>>)
          /\ pc' = "done"
          /\ UNCHANGED <<login_detected, block>>
     ELSE /\ login_detected' = LoginDetected(html.toks)
          /\ block' = panel_block(html.toks)
          /\ pc' = "tier1"
          /\ UNCHANGED result
  /\ UNCHANGED <<fn, html, entries, rows, row_idx, tiers_run, t2_matches,
                 extracted, src_rows>>

\* for pb in p_blocks: ...
PrognosisTier1 ==
  /\ pc = "tier1"
  /\ entries' = Tier1(block)
  /\ tiers_run' = Append(tiers_run, [tier |-> 1, n |-> Len(entries')])
  /\ pc' = "tier2"
  /\ UNCHANGED <<fn, html, login_detected, block, rows, row_idx, result,
                 t2_matches, extracted, src_rows>>

\* A faulty variant of RunsFallback: the fallback tiers run whatever was found.
RunsFallbackAlways(es) == TRUE

\* Whether a fallback tier runs: "if not entries".
RunsFallback(es) == es = <<>>

\* if not entries: for m in global_pattern.findall(html_text): ...
PrognosisTier2 ==
  /\ pc = "tier2"
  /\ IF RunsFallback(entries)
     THEN /\ entries' = Tier2(html.toks)
          /\ t2_matches' = global_pattern_findall(html.toks, 1)
          /\ tiers_run' = Append(tiers_run, [tier |-> 2, n |-> Len(entries')])
     ELSE UNCHANGED <<entries, t2_matches, tiers_run>>
  /\ pc' = "tier3"
  /\ UNCHANGED <<fn, html, login_detected, block, rows, row_idx, result,
                 extracted, src_rows>>

\* if not entries: for m in simple_pattern.findall(html_text): ...
PrognosisTier3 ==
  /\ pc = "tier3"
  /\ IF RunsFallback(entries)
     THEN /\ entries' = Tier3(html.toks)
          /\ tiers_run' = Append(tiers_run, [tier |-> 3, n |-> Len(entries')])
     ELSE UNCHANGED <<entries, tiers_run>>
  /\ pc' = "sort"
  /\ UNCHANGED <<fn, html, login_detected, block, rows, row_idx, result,
                 t2_matches, extracted, src_rows>>

\* entries.sort(key=...) and the return.
PrognosisReturn ==
  /\ pc = "sort"
  /\ extracted' = entries
  /\ entries' = SortEntries(entries)
  /\ result' = ParseResult(login_detected, entries')
  /\ pc' = "done"
  /\ UNCHANGED <<fn, html, login_detected, block, rows, row_idx, tiers_run,
                 t2_matches, src_rows>>

RowsOf(trs) == [i \in 1..Len(trs) |-> td_pattern_findall(trs[i], 1)]

\* parse_marathon_requirements_html up to the for loop: the guard and its
\* early return, the login test, the table block, tr_pattern.findall(block).
RequirementsBegin ==
  /\ pc = "begin"
  /\ fn = "parse_marathon_requirements_html"
  /\ IF InvalidInput(html)
     THEN /\ result' = ParseResult(FALSE, <<>>)
          /\ pc' = "done"
          /\ UNCHANGED <<login_detected, block, rows>>
     ELSE /\ login_detected' = LoginDetected(html.toks)
          /\ block' = table_block(html.toks)
          /\ rows' = RowsOf(tr_pattern_findall(block', 1))
          /\ pc' = "rows"
          /\ UNCHANGED result
  /\ row_idx' = 1
  /\ UNCHANGED <<fn, html, entries, tiers_run, t2_matches, extracted, src_rows>>

\* One iteration of "for tr in tr_pattern.findall(block)".
RequirementsRow ==
  /\ pc = "rows"
  /\ row_idx <= Len(rows)
  /\ IF RowTooShort(rows[row_idx])
     THEN UNCHANGED <<entries, src_rows>>
     ELSE /\ entries' = Append(entries, RowEntry(rows[row_idx]))
          /\ src_rows' = Append(src_rows, row_idx)
  /\ row_idx' = row_idx + 1
  /\ UNCHANGED <<pc, fn, html, login_detected, block, rows, result, tiers_run,
                 t2_matches, extracted>>

\* A faulty variant of RequirementsReturn: the entries are sorted as in parse_prognosis_html.
RequirementsReturnSorted ==
  /\ pc = "rows"
  /\ row_idx > Len(rows)
  /\ entries' = SortEntries(entries)
  /\ result' = ParseResult(login_detected, entries')
  /\ pc' = "done"
  /\ UNCHANGED <<fn, html, login_detected, block, rows, row_idx,
                 tiers_run, t2_matches, extracted, src_rows>>

\* The return after the loop.
RequirementsReturn ==
  /\ pc = "rows"
  /\ row_idx > Len(rows)
  /\ result' = ParseResult(login_detected, entries)
  /\ pc' = "done"
  /\ UNCHANGED <<fn, html, login_detected, block, entries, rows, row_idx,
                 tiers_run, t2_matches, extracted, src_rows>>

Next ==
  \/ Call
  \/ PrognosisBegin
  \/ PrognosisTier1
  \/ PrognosisTier2
  \/ PrognosisTier3
  \/ PrognosisReturn
  \/ RequirementsBegin
  \/ RequirementsRow
  \/ RequirementsReturn

Spec == Init /\ [][Next]_vars

(***************************************************************************)
(* Properties.                                                             *)
(***************************************************************************)
\* The call has returned / has returned after passing the guard.
Returned(f) == pc = "done" /\ fn = f

Parsed(f) == Returned(f) /\ html.type = "str" /\ html.toks # <<>>

\* distance_mi values in non-decreasing order, every None after every number.
Ascending(es) ==
  \A i \in 1..Len(es) : \A j \in (i + 1)..Len(es) :
    /\ es[i].distance_mi.isNone => es[j].distance_mi.isNone
    /\ (~es[i].distance_mi.isNone /\ ~es[j].distance_mi.isNone)
         => ~NumLess(es[j].distance_mi, es[i].distance_mi)

\* Two entries that the sort must not swap: equal numbers, or both None.
SameDistance(a, b) ==
  /\ a.distance_mi.isNone = b.distance_mi.isNone
  /\ ~NumLess(a.distance_mi, b.distance_mi)
  /\ ~NumLess(b.distance_mi, a.distance_mi)

StrictlyIncreasing(q) == \A i \in 1..Len(q) : \A j \in (i + 1)..Len(q) : q[i] < q[j]

\* C1: the tiers run in the order 1, 2, 3, a tier runs only when every tier
\* before it produced no record, and when Tier 1 (or, failing it, Tier 2)
\* produces a record on the input, no later tier runs and the records are
\* exactly those of that tier.
C1_TierShortCircuit ==
  fn = "parse_prognosis_html" =>
    /\ \A k \in 1..Len(tiers_run) :
         /\ tiers_run[k].tier = k
         /\ \A j \in 1..(k - 1) : tiers_run[j].n = 0
    /\ Parsed("parse_prognosis_html") =>
         /\ Tier1(block) # <<>> => Len(tiers_run) = 1 /\ extracted = Tier1(block)
         /\ (Tier1(block) = <<>> /\ Tier2(html.toks) # <<>>)
              => Len(tiers_run) = 2 /\ extracted = Tier2(html.toks)

\* Tier 1 succeeded on a text on which Tier 2 and Tier 3 would also have
\* produced records, and neither ran.
C1_Witness ==
  /\ Parsed("parse_prognosis_html")
  /\ Len(tiers_run) = 1 /\ tiers_run[1].n > 0
  /\ Tier2(html.toks) # <<>>
  /\ Tier3(html.toks) # <<>>

\* C2: whatever the input, the result of either parser has meta.found true
\* exactly when its entries are non-empty.
C2_FoundIffEntries ==
  pc = "done" => (result.meta.found <=> result.entries # <<>>)

C2_Witness ==
  /\ Returned("parse_marathon_requirements_html")
  /\ result.meta.found
  /\ Len(result.entries) = 1

\* A login token occurs in a lexeme, compared case-insensitively.  A token
\* holds neither "<" nor ">", so an occurrence in the raw text lies inside
\* one lexeme.
TokenIn(t) == \E tok \in login_indicators : Contains(lower(t), tok)

\* The entries of the text alone, computed without any flag.
EntriesOfText(f, toks) ==
  IF f = "parse_prognosis_html"
  THEN LET t1 == Tier1(panel_block(toks))
           t2 == Tier2(toks)
       IN SortEntries(IF t1 # <<>> THEN t1 ELSE IF t2 # <<>> THEN t2 ELSE Tier3(toks))
  ELSE LET rs   == RowsOf(tr_pattern_findall(table_block(toks), 1))
           kept == SelectSeq([i \in 1..Len(rs) |-> i], LAMBDA i : Len(rs[i]) >= 7)
       IN [k \in 1..Len(kept) |-> RowEntry(rs[kept[k]])]

\* C3: for a string input, login_detected is true whenever a login token
\* occurs anywhere in the raw input, case-insensitively, and the entries of
\* a flagged text are those the text alone yields.
C3_LoginFlag ==
  (pc = "done" /\ html.type = "str" /\ html.toks # <<>>) =>
    /\ (\E i \in 1..Len(html.toks) : TokenIn(html.toks[i])) => result.meta.login_detected
    /\ result.meta.login_detected => result.entries = EntriesOfText(fn, html.toks)

\* A flagged result with entries, the token being outside the located block
\* and in upper case.
C3_Witness ==
  /\ Parsed("parse_prognosis_html")
  /\ result.meta.login_detected
  /\ result.meta.found
  /\ \A i \in 1..Len(block) : ~TokenIn(block[i])
  /\ \A i \in 1..Len(html.toks) : \A tok \in login_indicators : ~Contains(html.toks[i], tok)

\* C4: the entries returned by parse_prognosis_html are the extracted
\* records in ascending order of distance_mi, None last, and the order of
\* records of equal distance_mi (or both None) is the extraction order.
C4_StableSort ==
  Parsed("parse_prognosis_html") =>
    LET n == Len(extracted)
    IN /\ Len(result.entries) = n
       /\ Ascending(result.entries)
       /\ \E perm \in [1..n -> 1..n] :
            /\ \A i \in 1..n : \A j \in 1..n : perm[i] = perm[j] => i = j
            /\ \A k \in 1..n : result.entries[k] = extracted[perm[k]]
            /\ \A k \in 1..n : \A l \in (k + 1)..n :
                 SameDistance(result.entries[k], result.entries[l]) => perm[k] < perm[l]

\* The sort moved a None in front of two different records of equal distance.
C4_Witness ==
  /\ Parsed("parse_prognosis_html")
  /\ Len(extracted) = 3
  /\ extracted[1].distance_mi.isNone
  /\ SameDistance(extracted[2], extracted[3])
  /\ extracted[2] # extracted[3]
  /\ result.entries = <<extracted[2], extracted[3], extracted[1]>>

\* C5: a selected row with fewer than 7 cells yields no entry, a row with 7
\* or more yields one, and every row is processed: the entries stem, in
\* order, from exactly the rows with at least 7 cells.
C5_ShortRowsSkipped ==
  (fn = "parse_marathon_requirements_html" /\ pc \in {"rows", "done"}) =>
    /\ Len(src_rows) = Len(entries)
    /\ StrictlyIncreasing(src_rows)
    /\ {src_rows[k] : k \in 1..Len(src_rows)}
         = {i \in 1..(row_idx - 1) : Len(rows[i]) >= 7}
    /\ pc = "done" => row_idx = Len(rows) + 1

\* A 6-cell row between a 7-cell row and an 8-cell row.
C5_Witness ==
  /\ Parsed("parse_marathon_requirements_html")
  /\ Len(rows) = 3
  /\ Len(rows[1]) = 7 /\ Len(rows[2]) = 6 /\ Len(rows[3]) = 8
  /\ src_rows = <<1, 3>>
  /\ Len(result.entries) = 2

\* The field for a cleaned cell text c, as C6 states it / as amended.
DashOnly(c) == IF c = "-" THEN NoneStr ELSE Some(c)

DashOrEmpty(c) == IF c = "-" \/ c = "" THEN NoneStr ELSE Some(c)

\* C6 as stated: prognosis_time and optimum_time are None exactly for the
\* cleaned text "-", and any other cleaned text is kept.
C6_Original ==
  Parsed("parse_marathon_requirements_html") =>
    \A k \in 1..Len(result.entries) :
      LET tds == rows[src_rows[k]]
      IN /\ result.entries[k].prognosis_time = DashOnly(clean_html(tds[7]))
         /\ Len(tds) >= 8 => result.entries[k].optimum_time = DashOnly(clean_html(tds[8]))

\* C6 amended: None for the cleaned text "-" and for the empty cleaned text,
\* any other cleaned text kept unchanged.
C6_PlaceholderCollapse ==
  Parsed("parse_marathon_requirements_html") =>
    \A k \in 1..Len(result.entries) :
      LET tds == rows[src_rows[k]]
      IN /\ result.entries[k].prognosis_time = DashOrEmpty(clean_html(tds[7]))
         /\ Len(tds) >= 8 => result.entries[k].optimum_time = DashOrEmpty(clean_html(tds[8]))
         /\ Len(tds) < 8 => result.entries[k].optimum_time = NoneStr

\* One row with a dash collapsed to None and one with both texts kept.
C6_Witness ==
  /\ Parsed("parse_marathon_requirements_html")
  /\ \E k \in 1..Len(result.entries) :
       /\ clean_html(rows[src_rows[k]][7]) = "-"
       /\ result.entries[k].prognosis_time.isNone
  /\ \E k \in 1..Len(result.entries) :
       /\ result.entries[k].prognosis_time = Some("3:10:00")
       /\ result.entries[k].optimum_time = Some("2:59:00")

CheckMarker(cell) == Contains(lower(cell), "fa-check")

CrossMarker(cell) ==
  \E x \in {"fa-xmark", "fa-times", "xmark", "minus"} : Contains(lower(cell), x)

\* C7: achieved_ok is decided by the raw markup of the icon cell alone: true
\* with a check marker, otherwise false, with a cross marker or with none.
C7_AchievedFromIconCell ==
  Parsed("parse_marathon_requirements_html") =>
    \A k \in 1..Len(result.entries) :
      LET cell == rows[src_rows[k]][6]
      IN /\ CheckMarker(cell) => result.entries[k].achieved_ok
         /\ (CrossMarker(cell) /\ ~CheckMarker(cell)) => ~result.entries[k].achieved_ok
         /\ (~CrossMarker(cell) /\ ~CheckMarker(cell)) => ~result.entries[k].achieved_ok

\* An entry that is true by a marker that the cleaned text has lost, and an
\* entry that is false although another cell of its row holds a check marker.
C7_Witness ==
  /\ Parsed("parse_marathon_requirements_html")
  /\ \E k \in 1..Len(result.entries) :
       /\ result.entries[k].achieved_ok
       /\ clean_html(rows[src_rows[k]][6]) = ""
  /\ \E k \in 1..Len(result.entries) :
       /\ ~result.entries[k].achieved_ok
       /\ CheckMarker(rows[src_rows[k]][5])

\* C8: for None, the empty string and any value that is not a string, both
\* parsers return login_detected false, found false and no entries, and
\* neither a tier nor the row scan has run.
C8_EmptyInput ==
  (pc = "done" /\ (html.type # "str" \/ html.toks = <<>>)) =>
    /\ ~result.meta.login_detected
    /\ ~result.meta.found
    /\ result.entries = <<>>
    /\ tiers_run = <<>>
    /\ block = <<>> /\ rows = <<>> /\ row_idx = 1 /\ entries = <<>>

\* A non-empty list holding the word Login was passed.
C8_Witness ==
  /\ pc = "done"
  /\ html.type = "list"
  /\ \E i \in 1..Len(html.toks) : TokenIn(html.toks[i])
  /\ result = ParseResult(FALSE, <<>>)

C10_Tier2SingleParagraph ==
  fn = "parse_prognosis_html" =>
    \A k \in 1..Len(t2_matches) :
      \A i \in t2_matches[k].open..t2_matches[k].dist : ~Lit(html.toks[i], "</p>")

====
